---- MODULE Spec2Model ----
(***************************************************************************)
(* State machine of hooksWithContext (src/unnamed/part_001): the persisted *)
(* reducer, the in-memory sessionIsNew flag, and the asynchronous actions   *)
(* and effects of the customer-access-token, checkout, product-variant and *)
(* customer hooks.                                                         *)
(*                                                                         *)
(* JavaScript is single threaded: an async action runs up to its `await`,  *)
(* the gateway call stays in flight (inFlight), and the code after the     *)
(* `await` runs as one continuation when the gateway answers.  React runs  *)
(* a useEffect callback after a render in which its dependencies changed;  *)
(* when a continuation updates the state twice (dispatch, then             *)
(* setSessionIsNew), a build that renders synchronously runs the effect    *)
(* between the two updates and a build that batches them does not: the     *)
(* effect is therefore an action of its own that may fire between them.    *)
(***************************************************************************)
EXTENDS Integers, Sequences, FiniteSets, TLC

VARIABLES
    state,             \* the persisted reducer state (useLocalStorageReducer)
    sessionIsNew,      \* the in-memory flag (useSessionStorageState)
    inFlight,          \* gateway calls awaited by an action, in issue order
    deleting,          \* tokens whose deleteCustomerAccessToken call is in flight
    cont,              \* the continuation that is between two state updates
    renewEffectDeps,   \* dependencies seen by the last run of the renew effect
    last,              \* the step just taken: action, gateway result, prior state
    callerCalls,       \* number of actions the caller has invoked
    renewInvocations,  \* number of renewCustomerAccessToken invocations
    hist,              \* the awaited addToCheckout calls so far (SpecSeq)
    autoRenewals,      \* number of renewTokenAutomatically invocations
    autoCreate,        \* the autoCreate argument of the checkout accessor
    checkoutEffectDeps,\* checkoutId seen by each accessor's create effect
    autoCreates        \* number of createCheckout invocations by an effect

\* what the auto-create effects of useShopifyCheckoutWithContext read and write
checkoutEffectVars == <<autoCreate, checkoutEffectDeps, autoCreates>>

vars == <<state, sessionIsNew, inFlight, deleting, cont, renewEffectDeps,
          last, callerCalls, renewInvocations, hist, autoRenewals,
          autoCreate, checkoutEffectDeps, autoCreates>>

----------------------------------------------------------------------------
(* Bounds and input domains *)

MaxCalls == 2
MaxSeqCalls == 3
MaxInFlight == 2
MaxQuantity == 1
MaxSeqQuantity == 3

Null == "null"
Undefined == "undefined"

Variants == {"v1", "v2"}
Quantities == 1..MaxQuantity
\* the inputs of the awaited use (SpecSeq)
SeqVariants == {"v1", "v2", "v3"}
SeqQuantities == 1..MaxSeqQuantity
\* customAttributes is an optional mapping; a mapping is written as a string
\* that names it, and is never equal to a variant id.
CustomAttributes == {Undefined}
SeqCustomAttributes == {Undefined, "giftWrap"}
\* the token an earlier process persisted, and the data payloads the gateway
\* can answer with: a renewal of the persisted token changes the token, a
\* renewal of an issued token returns the same one
PersistedToken == [accessToken |-> "t1", expiresAt |-> "e1"]
Payloads == {[accessToken |-> "t2", expiresAt |-> "e2"]}
Tokens == {PersistedToken.accessToken} \cup {p.accessToken : p \in Payloads}
CheckoutIds == {"c1"}

\* A gateway result is {data: payload} or {userErrors: [...]}; hasData tells
\* which, and data holds the payload's fields (Null where a call has none).
NoData == [accessToken |-> Null, expiresAt |-> Null, id |-> Null]
UserErrors == [hasData |-> FALSE, data |-> NoData]
TokenResults ==
    {UserErrors} \cup
    {[hasData |-> TRUE,
      data |-> [accessToken |-> p.accessToken, expiresAt |-> p.expiresAt,
                id |-> Null]] : p \in Payloads}
CheckoutResults ==
    {UserErrors} \cup
    {[hasData |-> TRUE,
      data |-> [accessToken |-> Null, expiresAt |-> Null, id |-> c]] :
        c \in CheckoutIds}
LineItemsResults == {UserErrors, [hasData |-> TRUE, data |-> NoData]}
DeleteResults == {UserErrors, [hasData |-> TRUE, data |-> NoData]}

----------------------------------------------------------------------------
(* The reducer *)

initialState ==
    [customerAccessToken |-> Null,
     customerAccessTokenExpiresAt |-> Null,
     checkoutId |-> Null,
     checkoutLineItems |-> <<>>]

reducer_resetKeepsCheckout(s, action) ==
    CASE action.type = "SET_CUSTOMER_ACCESS_TOKEN" ->
           [s EXCEPT !.customerAccessToken = action.payload.accessToken,
                     !.customerAccessTokenExpiresAt = action.payload.expiresAt]
      [] action.type = "SET_CHECKOUT_ID" ->
           [s EXCEPT !.checkoutId = action.payload]
      [] action.type = "SET_CHECKOUT_LINE_ITEMS" ->
           [s EXCEPT !.checkoutLineItems = action.payload]
      [] action.type = "RESET" ->
           [initialState EXCEPT !.checkoutId = s.checkoutId]

reducer_tokenWithoutExpiry(s, action) ==
    CASE action.type = "SET_CUSTOMER_ACCESS_TOKEN" ->
           [s EXCEPT !.customerAccessToken = action.payload.accessToken]
      [] action.type = "SET_CHECKOUT_ID" ->
           [s EXCEPT !.checkoutId = action.payload]
      [] action.type = "SET_CHECKOUT_LINE_ITEMS" ->
           [s EXCEPT !.checkoutLineItems = action.payload]
      [] action.type = "RESET" -> initialState

reducer_checkoutIdClearsLineItems(s, action) ==
    CASE action.type = "SET_CUSTOMER_ACCESS_TOKEN" ->
           [s EXCEPT !.customerAccessToken = action.payload.accessToken,
                     !.customerAccessTokenExpiresAt = action.payload.expiresAt]
      [] action.type = "SET_CHECKOUT_ID" ->
           [s EXCEPT !.checkoutId = action.payload,
                     !.checkoutLineItems = <<>>]
      [] action.type = "SET_CHECKOUT_LINE_ITEMS" ->
           [s EXCEPT !.checkoutLineItems = action.payload]
      [] action.type = "RESET" -> initialState

reducer(s, action) ==
    CASE action.type = "SET_CUSTOMER_ACCESS_TOKEN" ->
           [s EXCEPT !.customerAccessToken = action.payload.accessToken,
                     !.customerAccessTokenExpiresAt = action.payload.expiresAt]
      [] action.type = "SET_CHECKOUT_ID" ->
           [s EXCEPT !.checkoutId = action.payload]
      [] action.type = "SET_CHECKOUT_LINE_ITEMS" ->
           [s EXCEPT !.checkoutLineItems = action.payload]
      [] action.type = "RESET" -> initialState

----------------------------------------------------------------------------
(* The line-item merge of addToCheckout *)

includes_never(value, lineItem) == FALSE

\* lodash/fp includes(value, object): value is one of the object's values.
\* quantity is a number and is never equal to a variant id (a string).
includes(value, lineItem) ==
    \E key \in {"variantId", "customAttributes"} : lineItem[key] = value

mergeWith_replaceQuantity(lineItem, newLineItem) ==
    [variantId |-> newLineItem.variantId,
     quantity |-> newLineItem.quantity,
     customAttributes |->
         IF newLineItem.customAttributes = Undefined
         THEN lineItem.customAttributes
         ELSE newLineItem.customAttributes]

\* lodash/fp mergeWith(customizer, lineItem, newLineItem): quantity is summed
\* by the customizer; any other key takes the source's value unless that
\* value is undefined.
mergeWith(lineItem, newLineItem) ==
    [variantId |-> newLineItem.variantId,
     quantity |-> lineItem.quantity + newLineItem.quantity,
     customAttributes |->
         IF newLineItem.customAttributes = Undefined
         THEN lineItem.customAttributes
         ELSE newLineItem.customAttributes]

nextLineItems_append(checkoutLineItems, newLineItem) ==
    IF \E i \in DOMAIN checkoutLineItems :
            includes(newLineItem.variantId, checkoutLineItems[i])
    THEN [i \in DOMAIN checkoutLineItems |->
             IF includes(newLineItem.variantId, checkoutLineItems[i])
             THEN mergeWith(checkoutLineItems[i], newLineItem)
             ELSE checkoutLineItems[i]]
    ELSE checkoutLineItems \o <<newLineItem>>

nextLineItems_dropOld(checkoutLineItems, newLineItem) ==
    IF \E i \in DOMAIN checkoutLineItems :
            includes(newLineItem.variantId, checkoutLineItems[i])
    THEN [i \in DOMAIN checkoutLineItems |->
             IF includes(newLineItem.variantId, checkoutLineItems[i])
             THEN mergeWith(checkoutLineItems[i], newLineItem)
             ELSE checkoutLineItems[i]]
    ELSE <<newLineItem>>

nextLineItems(checkoutLineItems, newLineItem) ==
    LET duplicateResolved ==
            \E i \in DOMAIN checkoutLineItems :
                includes(newLineItem.variantId, checkoutLineItems[i])
        mergedLineItems ==
            [i \in DOMAIN checkoutLineItems |->
                IF includes(newLineItem.variantId, checkoutLineItems[i])
                THEN mergeWith(checkoutLineItems[i], newLineItem)
                ELSE checkoutLineItems[i]]
    IN  IF duplicateResolved
        THEN mergedLineItems
        ELSE <<newLineItem>> \o mergedLineItems

----------------------------------------------------------------------------
(* Calls in flight and the record of the last step *)

NoItem == [variantId |-> Null, quantity |-> 0, customAttributes |-> Undefined]

\* A gateway call an action is awaiting: the closure values the action
\* captured when it was invoked.
\*   token: customerAccessToken of the render (renewToken, signOut)
\*   auto:  the call was made by renewTokenAutomatically
\*   item, snap, sent: newLineItem, checkoutLineItems and nextLineItems
NoCall ==
    [op |-> "none", token |-> Null, auto |-> FALSE,
     item |-> NoItem, snap |-> <<>>, sent |-> <<>>]

Remove(seq, i) ==
    [j \in 1..(Len(seq) - 1) |-> IF j < i THEN seq[j] ELSE seq[j + 1]]

\* The step just taken: the action, the gateway result it got, the call it
\* resumed and the persisted state before it.
Step(op, result, call, pre) ==
    [op |-> op, result |-> result, call |-> call, pre |-> pre]

\* No continuation is between two state updates.
NoCont == Step("none", UserErrors, NoCall, initialState)

ThreadIdle == cont = NoCont
CallerMayCall == ThreadIdle /\ callerCalls < MaxCalls
GatewayFree == Len(inFlight) < MaxInFlight

----------------------------------------------------------------------------
(* Initial state: what an earlier process left in local storage *)

PersistedStates ==
    {[customerAccessToken |-> t[1],
      customerAccessTokenExpiresAt |-> t[2],
      checkoutId |-> c,
      checkoutLineItems |-> l] :
        t \in {<<Null, Null>>,
                <<PersistedToken.accessToken, PersistedToken.expiresAt>>},
        c \in {Null} \cup CheckoutIds,
        l \in {<<>>}}

Unmounted == <<"unmounted", TRUE>>

\* The mounted components that run the auto-create effect: one that calls
\* useShopifyCheckoutWithContext(autoCreate), and one that calls
\* useShopifyProductVariantWithContext, which calls
\* useShopifyCheckoutWithContext() and so runs the effect with the default.
CheckoutConsumers ==
    {"useShopifyCheckoutWithContext", "useShopifyProductVariantWithContext"}

autoCreateOf(consumer) ==
    IF consumer = "useShopifyCheckoutWithContext" THEN autoCreate ELSE TRUE

Init ==
    /\ state \in PersistedStates
    /\ sessionIsNew = TRUE
    /\ inFlight = <<>>
    /\ deleting = {}
    /\ cont = NoCont
    /\ renewEffectDeps = Unmounted
    /\ last = Step("init", UserErrors, NoCall, initialState)
    /\ callerCalls = 0
    /\ renewInvocations = 0
    /\ hist = <<>>
    /\ autoRenewals = 0
    /\ autoCreate = TRUE
    /\ checkoutEffectDeps = [c \in CheckoutConsumers |-> "unmounted"]
    /\ autoCreates = 0

----------------------------------------------------------------------------
(* useShopifyProductVariantWithContext: addToCheckout *)

NewLineItem(variantId, quantity, customAttributes) ==
    [variantId |-> variantId, quantity |-> quantity,
     customAttributes |-> customAttributes]

\* addToCheckout up to `await lineItemsReplace(nextLineItems)`: the closure's
\* checkoutLineItems is the one of the latest render.
addToCheckout(variantId, quantity, customAttributes) ==
    LET newLineItem == NewLineItem(variantId, quantity, customAttributes)
        call == [NoCall EXCEPT
                    !.op = "addToCheckout",
                    !.item = newLineItem,
                    !.snap = state.checkoutLineItems,
                    !.sent = nextLineItems(state.checkoutLineItems, newLineItem)]
    IN  /\ CallerMayCall
        /\ GatewayFree
        /\ inFlight' = Append(inFlight, call)
        /\ callerCalls' = callerCalls + 1
        /\ last' = Step("addToCheckout:call", UserErrors, NoCall, initialState)
        /\ UNCHANGED <<state, sessionIsNew, deleting, cont, renewEffectDeps,
                       renewInvocations, hist,
                   autoRenewals, checkoutEffectVars>>

addToCheckoutAwaited_rebase(i, result) ==
    /\ ThreadIdle
    /\ i \in DOMAIN inFlight
    /\ inFlight[i].op = "addToCheckout"
    /\ state' = reducer(state,
                    [type |-> "SET_CHECKOUT_LINE_ITEMS",
                     payload |-> nextLineItems(state.checkoutLineItems,
                                               inFlight[i].item)])
    /\ inFlight' = Remove(inFlight, i)
    /\ last' = Step("addToCheckout", result, inFlight[i], state)
    /\ UNCHANGED <<sessionIsNew, deleting, cont, renewEffectDeps,
                   callerCalls, renewInvocations, hist,
                   autoRenewals, checkoutEffectVars>>

addToCheckoutAwaited_onlyOnData(i, result) ==
    /\ ThreadIdle
    /\ i \in DOMAIN inFlight
    /\ inFlight[i].op = "addToCheckout"
    /\ state' = IF result.hasData
                THEN reducer(state, [type |-> "SET_CHECKOUT_LINE_ITEMS",
                                     payload |-> inFlight[i].sent])
                ELSE state
    /\ inFlight' = Remove(inFlight, i)
    /\ last' = Step("addToCheckout", result, inFlight[i], state)
    /\ UNCHANGED <<sessionIsNew, deleting, cont, renewEffectDeps,
                   callerCalls, renewInvocations, hist,
                   autoRenewals, checkoutEffectVars>>

\* The code after the await: the dispatch does not look at the result.
addToCheckoutAwaited(i, result) ==
    /\ ThreadIdle
    /\ i \in DOMAIN inFlight
    /\ inFlight[i].op = "addToCheckout"
    /\ state' = reducer(state, [type |-> "SET_CHECKOUT_LINE_ITEMS",
                                payload |-> inFlight[i].sent])
    /\ inFlight' = Remove(inFlight, i)
    /\ last' = Step("addToCheckout", result, inFlight[i], state)
    /\ UNCHANGED <<sessionIsNew, deleting, cont, renewEffectDeps,
                   callerCalls, renewInvocations, hist,
                   autoRenewals, checkoutEffectVars>>

----------------------------------------------------------------------------
(* useShopifyCustomerAccessTokenWithContext *)

signOutBody_alwaysDeletes(token) ==
    /\ deleting' = deleting \cup {token}
    /\ state' = reducer(state, [type |-> "RESET"])
    /\ sessionIsNew' = TRUE

\* The body of signOut, with the customerAccessToken its closure captured.
signOutBody(token) ==
    /\ deleting' = IF token # Null THEN deleting \cup {token} ELSE deleting
    /\ state' = reducer(state, [type |-> "RESET"])
    /\ sessionIsNew' = TRUE

signOut ==
    /\ CallerMayCall
    /\ signOutBody(state.customerAccessToken)
    /\ callerCalls' = callerCalls + 1
    /\ last' = Step("signOut", UserErrors,
                    [NoCall EXCEPT !.op = "signOut",
                                   !.token = state.customerAccessToken],
                    state)
    /\ UNCHANGED <<inFlight, cont, renewEffectDeps, renewInvocations, hist,
                   autoRenewals, checkoutEffectVars>>

\* The gateway answers a deleteCustomerAccessToken call; nobody awaits it.
deleteCustomerAccessTokenAnswered(token, result) ==
    /\ token \in deleting
    /\ deleting' = deleting \ {token}
    /\ last' = Step("deleteCustomerAccessToken", result,
                    [NoCall EXCEPT !.op = "deleteCustomerAccessToken",
                                   !.token = token],
                    initialState)
    /\ UNCHANGED <<state, sessionIsNew, inFlight, cont, renewEffectDeps,
                   callerCalls, renewInvocations, hist,
                   autoRenewals, checkoutEffectVars>>

\* renewToken up to `await renewCustomerAccessToken(customerAccessToken)`.
renewTokenCall(auto) ==
    [NoCall EXCEPT !.op = "renewToken",
                   !.token = state.customerAccessToken,
                   !.auto = auto]

renewToken ==
    /\ CallerMayCall
    /\ GatewayFree
    /\ inFlight' = Append(inFlight, renewTokenCall(FALSE))
    /\ renewInvocations' = renewInvocations + 1
    /\ callerCalls' = callerCalls + 1
    /\ last' = Step("renewToken:call", UserErrors, NoCall, initialState)
    /\ UNCHANGED <<state, sessionIsNew, deleting, cont, renewEffectDeps, hist,
                   autoRenewals, checkoutEffectVars>>

renewTokenAwaited_noSignOut(i, result) ==
    /\ ThreadIdle
    /\ i \in DOMAIN inFlight
    /\ inFlight[i].op = "renewToken"
    /\ IF result.hasData
       THEN state' = reducer(state,
                        [type |-> "SET_CUSTOMER_ACCESS_TOKEN",
                         payload |-> [accessToken |-> result.data.accessToken,
                                      expiresAt |-> result.data.expiresAt]])
       ELSE state' = state
    /\ cont' = IF inFlight[i].auto
               THEN Step("renewTokenAutomatically", result, inFlight[i],
                         initialState)
               ELSE NoCont
    /\ inFlight' = Remove(inFlight, i)
    /\ last' = Step("renewToken", result, inFlight[i], state)
    /\ UNCHANGED <<sessionIsNew, deleting, renewEffectDeps, callerCalls,
                   renewInvocations, hist,
                   autoRenewals, checkoutEffectVars>>

\* The code of renewToken after the await: set the token, or sign out.  When
\* the caller is renewTokenAutomatically, its setSessionIsNew(false) is the
\* continuation's next state update.
renewTokenAwaited(i, result) ==
    /\ ThreadIdle
    /\ i \in DOMAIN inFlight
    /\ inFlight[i].op = "renewToken"
    /\ IF result.hasData
       THEN /\ state' = reducer(state,
                            [type |-> "SET_CUSTOMER_ACCESS_TOKEN",
                             payload |-> [accessToken |-> result.data.accessToken,
                                          expiresAt |-> result.data.expiresAt]])
            /\ UNCHANGED <<sessionIsNew, deleting>>
       ELSE signOutBody(inFlight[i].token)
    /\ cont' = IF inFlight[i].auto
               THEN Step("renewTokenAutomatically", result, inFlight[i],
                         initialState)
               ELSE NoCont
    /\ inFlight' = Remove(inFlight, i)
    /\ last' = Step("renewToken", result, inFlight[i], state)
    /\ UNCHANGED <<renewEffectDeps, callerCalls, renewInvocations, hist,
                   autoRenewals, checkoutEffectVars>>

renewTokenAutomaticallyAwaited_keepsFlag ==
    /\ cont.op = "renewTokenAutomatically"
    /\ cont' = NoCont
    /\ last' = Step("renewTokenAutomatically", UserErrors, NoCall, initialState)
    /\ UNCHANGED <<state, sessionIsNew, inFlight, deleting, renewEffectDeps,
                   callerCalls, renewInvocations, hist,
                   autoRenewals, checkoutEffectVars>>

\* renewTokenAutomatically after `await renewToken()`: setSessionIsNew(false).
renewTokenAutomaticallyAwaited ==
    /\ cont.op = "renewTokenAutomatically"
    /\ sessionIsNew' = FALSE
    /\ cont' = NoCont
    /\ last' = Step("renewTokenAutomatically", UserErrors, NoCall, initialState)
    /\ UNCHANGED <<state, inFlight, deleting, renewEffectDeps, callerCalls,
                   renewInvocations, hist,
                   autoRenewals, checkoutEffectVars>>

\* The useEffect: it runs after a render in which customerAccessToken,
\* renewTokenAutomatically (which changes with customerAccessToken) or
\* sessionIsNew changed, and calls renewTokenAutomatically when a token is
\* present and the session is new.
renewTokenEffect ==
    LET deps == <<state.customerAccessToken, sessionIsNew>>
        fires == state.customerAccessToken # Null /\ sessionIsNew
    IN  /\ renewEffectDeps # deps
        /\ fires => GatewayFree
        /\ renewEffectDeps' = deps
        /\ inFlight' = IF fires THEN Append(inFlight, renewTokenCall(TRUE))
                                ELSE inFlight
        /\ renewInvocations' = IF fires THEN renewInvocations + 1
                                        ELSE renewInvocations
        /\ autoRenewals' = IF fires THEN autoRenewals + 1 ELSE autoRenewals
        /\ last' = Step("renewTokenEffect", UserErrors, NoCall, initialState)
        /\ UNCHANGED <<state, sessionIsNew, deleting, cont, callerCalls, hist,
                       checkoutEffectVars>>

\* signIn up to `await createCustomerAccessToken(...args)`.
signIn ==
    /\ CallerMayCall
    /\ GatewayFree
    /\ inFlight' = Append(inFlight, [NoCall EXCEPT !.op = "signIn"])
    /\ callerCalls' = callerCalls + 1
    /\ last' = Step("signIn:call", UserErrors, NoCall, initialState)
    /\ UNCHANGED <<state, sessionIsNew, deleting, cont, renewEffectDeps,
                   renewInvocations, hist,
                   autoRenewals, checkoutEffectVars>>

\* The code of signIn after the await, up to and including the dispatch; a
\* result without data is returned at once.
signInAwaited(i, result) ==
    /\ ThreadIdle
    /\ i \in DOMAIN inFlight
    /\ inFlight[i].op = "signIn"
    /\ IF result.hasData
       THEN /\ state' = reducer(state,
                            [type |-> "SET_CUSTOMER_ACCESS_TOKEN",
                             payload |-> [accessToken |-> result.data.accessToken,
                                          expiresAt |-> result.data.expiresAt]])
            /\ cont' = Step("signIn", result, inFlight[i], state)
            /\ last' = Step("signIn:dispatch", result, inFlight[i], state)
       ELSE /\ UNCHANGED <<state, cont>>
            /\ last' = Step("signIn", result, inFlight[i], state)
    /\ inFlight' = Remove(inFlight, i)
    /\ UNCHANGED <<sessionIsNew, deleting, renewEffectDeps, callerCalls,
                   renewInvocations, hist,
                   autoRenewals, checkoutEffectVars>>

signInReturn_keepsFlag ==
    /\ cont.op = "signIn"
    /\ cont' = NoCont
    /\ last' = cont
    /\ UNCHANGED <<state, sessionIsNew, inFlight, deleting, renewEffectDeps,
                   callerCalls, renewInvocations, hist,
                   autoRenewals, checkoutEffectVars>>

\* signIn's setSessionIsNew(false) and `return result`.
signInReturn ==
    /\ cont.op = "signIn"
    /\ sessionIsNew' = FALSE
    /\ cont' = NoCont
    /\ last' = cont
    /\ UNCHANGED <<state, inFlight, deleting, renewEffectDeps, callerCalls,
                   renewInvocations, hist,
                   autoRenewals, checkoutEffectVars>>

----------------------------------------------------------------------------
(* useShopifyCheckoutWithContext: createCheckout *)

\* createCheckoutWithContext up to `await createCheckout(...args)`.
createCheckout ==
    /\ CallerMayCall
    /\ GatewayFree
    /\ inFlight' = Append(inFlight, [NoCall EXCEPT !.op = "createCheckout"])
    /\ callerCalls' = callerCalls + 1
    /\ last' = Step("createCheckout:call", UserErrors, NoCall, initialState)
    /\ UNCHANGED <<state, sessionIsNew, deleting, cont, renewEffectDeps,
                   renewInvocations, hist,
                   autoRenewals, checkoutEffectVars>>

createCheckoutAwaited(i, result) ==
    /\ ThreadIdle
    /\ i \in DOMAIN inFlight
    /\ inFlight[i].op = "createCheckout"
    /\ state' = IF result.hasData
                THEN reducer(state, [type |-> "SET_CHECKOUT_ID",
                                     payload |-> result.data.id])
                ELSE state
    /\ inFlight' = Remove(inFlight, i)
    /\ last' = Step("createCheckout", result, inFlight[i], state)
    /\ UNCHANGED <<sessionIsNew, deleting, cont, renewEffectDeps, callerCalls,
                   renewInvocations, hist,
                   autoRenewals, checkoutEffectVars>>

\* The useEffect of useShopifyCheckoutWithContext, once per mounted consumer:
\* it runs after a render in which checkoutId changed (autoCreate does not
\* change, createCheckoutWithContext is taken to be stable) and calls
\* createCheckoutWithContext when autoCreate is set and checkoutId is absent.
createCheckoutEffect(consumer) ==
    LET deps == state.checkoutId
        fires == autoCreateOf(consumer) /\ state.checkoutId = Null
    IN  /\ checkoutEffectDeps[consumer] # deps
        /\ fires => GatewayFree
        /\ checkoutEffectDeps' = [checkoutEffectDeps EXCEPT ![consumer] = deps]
        /\ inFlight' = IF fires
                       THEN Append(inFlight, [NoCall EXCEPT !.op = "createCheckout",
                                                            !.auto = TRUE])
                       ELSE inFlight
        /\ autoCreates' = IF fires THEN autoCreates + 1 ELSE autoCreates
        /\ last' = Step("createCheckoutEffect", UserErrors, NoCall, initialState)
        /\ UNCHANGED <<state, sessionIsNew, deleting, cont, renewEffectDeps,
                       callerCalls, renewInvocations, hist, autoRenewals,
                       autoCreate>>

----------------------------------------------------------------------------
(* useShopifyCustomerWithContext *)

CustomerActions == {"activateCustomer", "resetCustomer", "resetCustomerByUrl"}

\* A customer action up to its `await`.
customerActionCall(op) ==
    /\ CallerMayCall
    /\ GatewayFree
    /\ inFlight' = Append(inFlight, [NoCall EXCEPT !.op = op])
    /\ callerCalls' = callerCalls + 1
    /\ last' = Step("customer:call", UserErrors, NoCall, initialState)
    /\ UNCHANGED <<state, sessionIsNew, deleting, cont, renewEffectDeps,
                   renewInvocations, hist, autoRenewals, checkoutEffectVars>>

customerActionAwaited_signsOutOnErrors(op, i, result) ==
    /\ ThreadIdle
    /\ i \in DOMAIN inFlight
    /\ inFlight[i].op = op
    /\ state' = IF result.hasData
                THEN reducer(state,
                        [type |-> "SET_CUSTOMER_ACCESS_TOKEN",
                         payload |-> [accessToken |-> result.data.accessToken,
                                      expiresAt |-> result.data.expiresAt]])
                ELSE reducer(state, [type |-> "RESET"])
    /\ inFlight' = Remove(inFlight, i)
    /\ last' = Step(op, result, inFlight[i], state)
    /\ UNCHANGED <<sessionIsNew, deleting, cont, renewEffectDeps, callerCalls,
                   renewInvocations, hist, autoRenewals, checkoutEffectVars>>

\* The code of a customer action after the await: `if (result.data)` dispatch
\* the token, then `return result`; sessionIsNew is not touched.
customerActionAwaited(op, i, result) ==
    /\ ThreadIdle
    /\ i \in DOMAIN inFlight
    /\ inFlight[i].op = op
    /\ state' = IF result.hasData
                THEN reducer(state,
                        [type |-> "SET_CUSTOMER_ACCESS_TOKEN",
                         payload |-> [accessToken |-> result.data.accessToken,
                                      expiresAt |-> result.data.expiresAt]])
                ELSE state
    /\ inFlight' = Remove(inFlight, i)
    /\ last' = Step(op, result, inFlight[i], state)
    /\ UNCHANGED <<sessionIsNew, deleting, cont, renewEffectDeps, callerCalls,
                   renewInvocations, hist, autoRenewals, checkoutEffectVars>>

activateCustomer == customerActionCall("activateCustomer")
activateCustomerAwaited(i, result) ==
    customerActionAwaited("activateCustomer", i, result)

resetCustomer == customerActionCall("resetCustomer")
resetCustomerAwaited(i, result) ==
    customerActionAwaited("resetCustomer", i, result)

resetCustomerByUrl == customerActionCall("resetCustomerByUrl")
resetCustomerByUrlAwaited(i, result) ==
    customerActionAwaited("resetCustomerByUrl", i, result)

----------------------------------------------------------------------------
(* useShopifyPersistedReducer: a dispatch by the caller *)

ActionTypes ==
    {"SET_CUSTOMER_ACCESS_TOKEN", "SET_CHECKOUT_ID", "SET_CHECKOUT_LINE_ITEMS",
     "RESET"}
\* an action type the reducer's switch has no case for
OtherActionTypes == {"SET_CUSTOMER"}

dispatchOther_ignored(type) ==
    /\ CallerMayCall
    /\ type \notin ActionTypes
    /\ callerCalls' = callerCalls + 1
    /\ last' = Step("dispatch", UserErrors,
                    [NoCall EXCEPT !.op = "dispatch", !.token = type], state)
    /\ UNCHANGED <<state, sessionIsNew, inFlight, deleting, cont,
                   renewEffectDeps, renewInvocations, hist, autoRenewals,
                   checkoutEffectVars>>

\* dispatch of an action whose type is none of the reducer's cases: the
\* default case throws, so the reducer returns no state and none is stored.
\* The call's token field carries the action type.
dispatchOther(type) ==
    /\ CallerMayCall
    /\ type \notin ActionTypes
    /\ callerCalls' = callerCalls + 1
    /\ last' = Step("Error: Invalid action type", UserErrors,
                    [NoCall EXCEPT !.op = "dispatch", !.token = type], state)
    /\ UNCHANGED <<state, sessionIsNew, inFlight, deleting, cont,
                   renewEffectDeps, renewInvocations, hist, autoRenewals,
                   checkoutEffectVars>>

----------------------------------------------------------------------------
(* The specification: any interleaving of caller actions, gateway answers   *)
(* and the renew effect.  A createCheckoutWithContext call of the           *)
(* auto-create effect runs the code of the createCheckout action; the       *)
(* effect itself is part of SpecMount below.                                *)

Next ==
    \/ \E v \in Variants, q \in Quantities, a \in CustomAttributes :
           addToCheckout(v, q, a)
    \/ \E i \in 1..MaxInFlight, r \in LineItemsResults :
           addToCheckoutAwaited(i, r)
    \/ signOut
    \/ \E t \in Tokens, r \in DeleteResults :
           deleteCustomerAccessTokenAnswered(t, r)
    \/ renewToken
    \/ \E i \in 1..MaxInFlight, r \in TokenResults : renewTokenAwaited(i, r)
    \/ renewTokenAutomaticallyAwaited
    \/ renewTokenEffect
    \/ signIn
    \/ \E i \in 1..MaxInFlight, r \in TokenResults : signInAwaited(i, r)
    \/ signInReturn
    \/ createCheckout
    \/ \E i \in 1..MaxInFlight, r \in CheckoutResults :
           createCheckoutAwaited(i, r)
    \/ activateCustomer
    \/ \E i \in 1..MaxInFlight, r \in TokenResults :
           activateCustomerAwaited(i, r)
    \/ resetCustomer
    \/ \E i \in 1..MaxInFlight, r \in TokenResults : resetCustomerAwaited(i, r)
    \/ resetCustomerByUrl
    \/ \E i \in 1..MaxInFlight, r \in TokenResults :
           resetCustomerByUrlAwaited(i, r)
    \/ \E t \in OtherActionTypes : dispatchOther(t)

Spec == Init /\ [][Next]_vars

----------------------------------------------------------------------------
(* The mounted application left to itself: the effects of the mounted       *)
(* accessors, the gateway's answers and the continuations they resume; the  *)
(* caller invokes nothing.  The JavaScript event loop runs every scheduled  *)
(* effect and every continuation whose promise has settled, and the gateway *)
(* is taken to answer every call.                                           *)

InitMount ==
    /\ state \in PersistedStates
    /\ sessionIsNew = TRUE
    /\ inFlight = <<>>
    /\ deleting = {}
    /\ cont = NoCont
    /\ renewEffectDeps = Unmounted
    /\ last = Step("init", UserErrors, NoCall, initialState)
    /\ callerCalls = 0
    /\ renewInvocations = 0
    /\ hist = <<>>
    /\ autoRenewals = 0
    /\ autoCreate \in BOOLEAN
    /\ checkoutEffectDeps = [c \in CheckoutConsumers |-> "unmounted"]
    /\ autoCreates = 0

renewTokenAnswered ==
    \E i \in 1..MaxInFlight, r \in TokenResults : renewTokenAwaited(i, r)
createCheckoutAnswered ==
    \E i \in 1..MaxInFlight, r \in CheckoutResults : createCheckoutAwaited(i, r)
createCheckoutEffects ==
    \E c \in CheckoutConsumers : createCheckoutEffect(c)
deleteAnswered ==
    \E t \in Tokens, r \in DeleteResults : deleteCustomerAccessTokenAnswered(t, r)

NextMount ==
    \/ renewTokenEffect
    \/ renewTokenAnswered
    \/ renewTokenAutomaticallyAwaited
    \/ createCheckoutEffects
    \/ createCheckoutAnswered
    \/ deleteAnswered

FairMount ==
    /\ WF_vars(renewTokenEffect)
    /\ WF_vars(renewTokenAnswered)
    /\ WF_vars(renewTokenAutomaticallyAwaited)
    /\ WF_vars(createCheckoutEffects)
    /\ WF_vars(createCheckoutAnswered)
    /\ WF_vars(deleteAnswered)

SpecMount == InitMount /\ [][NextMount]_vars /\ FairMount

----------------------------------------------------------------------------
(* The awaited use of addToCheckout: every call is awaited before the next  *)
(* one is made, starting from the initial state, and nothing else runs      *)

\* addToCheckout from its invocation to its return, the gateway's answer
\* included.
addToCheckoutAndAwait(variantId, quantity, customAttributes, result) ==
    LET newLineItem == NewLineItem(variantId, quantity, customAttributes)
        call == [NoCall EXCEPT
                    !.op = "addToCheckout",
                    !.item = newLineItem,
                    !.snap = state.checkoutLineItems,
                    !.sent = nextLineItems(state.checkoutLineItems, newLineItem)]
    IN  /\ callerCalls < MaxSeqCalls
        /\ state' = reducer(state, [type |-> "SET_CHECKOUT_LINE_ITEMS",
                                    payload |-> call.sent])
        /\ callerCalls' = callerCalls + 1
        /\ hist' = Append(hist, newLineItem)
        /\ last' = Step("addToCheckout", result, call, state)
        /\ UNCHANGED <<sessionIsNew, inFlight, deleting, cont, renewEffectDeps,
                       renewInvocations, autoRenewals, checkoutEffectVars>>

InitSeq ==
    /\ state = initialState
    /\ sessionIsNew = TRUE
    /\ inFlight = <<>>
    /\ deleting = {}
    /\ cont = NoCont
    /\ renewEffectDeps = Unmounted
    /\ last = Step("init", UserErrors, NoCall, initialState)
    /\ callerCalls = 0
    /\ renewInvocations = 0
    /\ hist = <<>>
    /\ autoRenewals = 0
    /\ autoCreate = TRUE
    /\ checkoutEffectDeps = [c \in CheckoutConsumers |-> "unmounted"]
    /\ autoCreates = 0

NextSeq ==
    \E v \in SeqVariants, q \in SeqQuantities, a \in SeqCustomAttributes,
       r \in LineItemsResults :
        addToCheckoutAndAwait(v, q, a, r)

SpecSeq == InitSeq /\ [][NextSeq]_vars

----------------------------------------------------------------------------
(* Properties of the awaited use (SpecSeq) *)

\* variantId and quantity of every line item, in order
Brief(lineItems) ==
    [i \in DOMAIN lineItems |->
        <<lineItems[i].variantId, lineItems[i].quantity>>]

VariantIds(lineItems) == {lineItems[i].variantId : i \in DOMAIN lineItems}

\* the awaited calls so far were addToCheckout('v1', 2), ('v2', 1), ('v1', 3)
ScenarioV1V2V1 == Brief(hist) = << <<"v1", 2>>, <<"v2", 1>>, <<"v1", 3>> >>

\* C1 as stated: after the awaited calls addToCheckout('v1', 2),
\* addToCheckout('v2', 1), addToCheckout('v1', 3) from the empty sequence,
\* checkoutLineItems is [{v1, 5}, {v2, 1}], v1 first.
C1_AsStated ==
    ScenarioV1V2V1 =>
        Brief(state.checkoutLineItems) = << <<"v1", 5>>, <<"v2", 1>> >>

\* C1 as amended: after the same three awaited calls checkoutLineItems is
\* [{v2, 1}, {v1, 5}]: v2 was prepended in front of v1, and the second add
\* of v1 summed its quantity in place.
C1_ScenarioResult ==
    ScenarioV1V2V1 =>
        Brief(state.checkoutLineItems) = << <<"v2", 1>>, <<"v1", 5>> >>

C1_Witness == ScenarioV1V2V1 /\ last.op = "addToCheckout"

\* C2: when the persisted sequence already has an entry for the variant, an
\* awaited addToCheckout keeps the length and the order of the variant ids,
\* sums the quantity of that entry in place, and leaves every other entry
\* as it was.
C2_DuplicateSumsInPlace ==
    LET old == last.pre.checkoutLineItems
        new == state.checkoutLineItems
        item == last.call.item
    IN  (last.op = "addToCheckout" /\ item.variantId \in VariantIds(old)) =>
            /\ Len(new) = Len(old)
            /\ \A i \in DOMAIN old :
                   /\ new[i].variantId = old[i].variantId
                   /\ IF old[i].variantId = item.variantId
                      THEN new[i].quantity = old[i].quantity + item.quantity
                      ELSE new[i] = old[i]

\* a duplicate was added while it stood behind another variant
C2_Witness ==
    /\ last.op = "addToCheckout"
    /\ Len(last.pre.checkoutLineItems) >= 2
    /\ last.pre.checkoutLineItems[2].variantId = last.call.item.variantId
    /\ last.call.item.quantity >= 2

\* C3: after n awaited addToCheckout calls with pairwise distinct variant
\* ids, from the empty sequence, checkoutLineItems has n entries and lists
\* the variants newest first.
C3_DistinctNewestFirst ==
    (\A i, j \in DOMAIN hist :
        i # j => hist[i].variantId # hist[j].variantId) =>
        /\ Len(state.checkoutLineItems) = Len(hist)
        /\ \A i \in DOMAIN hist :
               state.checkoutLineItems[i].variantId =
                   hist[Len(hist) + 1 - i].variantId

C3_Witness ==
    /\ Len(hist) = 3
    /\ Cardinality(VariantIds(hist)) = 3
    /\ last.op = "addToCheckout"

----------------------------------------------------------------------------
(* Properties of the interleaved use (Spec) *)

isSignedIn == state.customerAccessToken # Null

\* no gateway call is awaited, no continuation is running and the renew
\* effect has seen the current token and flag
Quiescent ==
    /\ inFlight = <<>>
    /\ cont = NoCont
    /\ renewEffectDeps = <<state.customerAccessToken, sessionIsNew>>

\* C4: in every reachable state checkoutLineItems has at most one entry per
\* variantId.
C4_OneEntryPerVariant ==
    \A i, j \in DOMAIN state.checkoutLineItems :
        i # j => state.checkoutLineItems[i].variantId #
                 state.checkoutLineItems[j].variantId

\* an addToCheckout whose snapshot lacked its variant dispatched onto a
\* persisted sequence that had meanwhile got an entry for that variant
C4_Witness ==
    /\ last.op = "addToCheckout"
    /\ last.call.item.variantId \in VariantIds(last.pre.checkoutLineItems)
    /\ last.call.item.variantId \notin VariantIds(last.call.snap)

\* C5: there is no mutual exclusion between addToCheckout calls: what a call
\* dispatches is its own line item merged into the snapshot it read when it
\* was invoked, so entries dispatched since then by another call are
\* overwritten.
C5_DispatchOverwrites ==
    LET snap == last.call.snap
        new == state.checkoutLineItems
        item == last.call.item
    IN  last.op = "addToCheckout" =>
            /\ VariantIds(new) = VariantIds(snap) \cup {item.variantId}
            /\ \A i \in DOMAIN new :
                   IF new[i].variantId = item.variantId
                   THEN \/ new[i].quantity = item.quantity
                           /\ item.variantId \notin VariantIds(snap)
                        \/ \E k \in DOMAIN snap :
                              /\ snap[k].variantId = item.variantId
                              /\ new[i].quantity =
                                     snap[k].quantity + item.quantity
                   ELSE \E k \in DOMAIN snap : snap[k] = new[i]

\* the lost update: two calls read the empty sequence, the first one's entry
\* was persisted, and the second one's dispatch left only its own entry
C5_Witness ==
    /\ last.op = "addToCheckout"
    /\ callerCalls = 2
    /\ last.call.snap = <<>>
    /\ Len(last.pre.checkoutLineItems) = 1
    /\ last.pre.checkoutLineItems[1].variantId \notin
           VariantIds(state.checkoutLineItems)

\* C6: when lineItemsReplace answers with userErrors and no data, the
\* persisted checkoutLineItems is still set to the sequence that was sent.
C6_FailureStillPersists ==
    (last.op = "addToCheckout" /\ ~last.result.hasData) =>
        state.checkoutLineItems = last.call.sent

C6_Witness ==
    /\ last.op = "addToCheckout"
    /\ ~last.result.hasData
    /\ state.checkoutLineItems # last.pre.checkoutLineItems
    /\ Len(state.checkoutLineItems) >= 2

\* C7: right after signOut the persisted state is the initial state and
\* sessionIsNew is true, whatever they were before.
C7_SignOutResets ==
    last.op = "signOut" =>
        /\ state = initialState
        /\ sessionIsNew = TRUE

\* signOut from a state with a token, a checkout and line items, after the
\* flag had been cleared
C7_Witness ==
    /\ last.op = "signOut"
    /\ last.pre.customerAccessToken # Null
    /\ last.pre.customerAccessTokenExpiresAt # Null
    /\ last.pre.checkoutId # Null
    /\ last.pre.checkoutLineItems # <<>>
    /\ renewEffectDeps[2] = FALSE

\* C8: when signIn returns a result with data, the persisted token and
\* expiry are the returned ones, isSignedIn is true and sessionIsNew is
\* false.
C8_SignInSuccess ==
    (last.op = "signIn" /\ last.result.hasData) =>
        /\ state.customerAccessToken = last.result.data.accessToken
        /\ state.customerAccessTokenExpiresAt = last.result.data.expiresAt
        /\ isSignedIn
        /\ sessionIsNew = FALSE

\* the first action of a process that started signed out, flag true
C8_Witness ==
    /\ last.op = "signIn"
    /\ last.result.hasData
    /\ last.pre.customerAccessToken = Null
    /\ callerCalls = 1

\* C9: as long as the caller invokes no action, the automatic renewal
\* invokes the gateway's renew operation at most once, and exactly once by
\* the time the system is quiescent with a token.
C9_RenewedExactlyOnce ==
    callerCalls = 0 =>
        /\ renewInvocations <= 1
        /\ (Quiescent /\ isSignedIn) => renewInvocations = 1

\* C10: when renewToken resumes with a result without data it has signed
\* out (deletion of its token requested, state reset, flag true) and hands
\* the result on; with data, the token and expiry are the returned ones and
\* the checkout id and line items are untouched.
C10_RenewTokenResult ==
    last.op = "renewToken" =>
        /\ IF last.result.hasData
           THEN /\ state.customerAccessToken = last.result.data.accessToken
                /\ state.customerAccessTokenExpiresAt =
                       last.result.data.expiresAt
                /\ state.checkoutId = last.pre.checkoutId
                /\ state.checkoutLineItems = last.pre.checkoutLineItems
           ELSE /\ state = initialState
                /\ sessionIsNew = TRUE
                /\ last.call.token # Null => last.call.token \in deleting
        /\ IF last.call.auto
           THEN cont.op = "renewTokenAutomatically" /\ cont.result = last.result
           ELSE cont = NoCont

\* the automatic renewal was rejected in a state with a token and a checkout
C10_Witness ==
    /\ last.op = "renewToken"
    /\ ~last.result.hasData
    /\ last.call.auto
    /\ last.pre.customerAccessToken # Null
    /\ last.pre.checkoutId # Null

\* C11: over any sequence of operations the automatic renewal is started at
\* most once, and it is never started in a state where sessionIsNew is
\* false.
C11_AutoRenewalAtMostOnce ==
    [][/\ autoRenewals' <= 1
       /\ autoRenewals' > autoRenewals => sessionIsNew]_vars

\* C14: in every reachable state customerAccessToken is null exactly when
\* customerAccessTokenExpiresAt is null.
C14_TokenAndExpiryTogether ==
    (state.customerAccessToken = Null) <=>
        (state.customerAccessTokenExpiresAt = Null)

\* a customer action set both in a signed-out state
C14_Witness ==
    /\ last.op = "activateCustomer"
    /\ last.result.hasData
    /\ last.pre.customerAccessToken = Null
    /\ state.customerAccessTokenExpiresAt # Null

\* C15: when the gateway rejects signIn, createCheckout, activateCustomer,
\* resetCustomer or resetCustomerByUrl, the step that resumes the action
\* changes neither the persisted state nor sessionIsNew and hands the result
\* back; a rejected renewToken signs out.
C15_RejectionChangesNothing ==
    [][~last'.result.hasData =>
          /\ last'.op \in {"signIn", "createCheckout"} \cup CustomerActions =>
                 /\ state' = state
                 /\ sessionIsNew' = sessionIsNew
                 /\ cont' = NoCont
          /\ last'.op = "renewToken" =>
                 /\ state' = initialState
                 /\ sessionIsNew']_vars

\* a customer action was rejected in a signed-in session whose flag was
\* already cleared
C15_Witness ==
    /\ last.op = "resetCustomerByUrl"
    /\ ~last.result.hasData
    /\ isSignedIn
    /\ ~sessionIsNew

\* C16: a dispatch of an action whose type is none of the four supported ones
\* raises the error and stores no state: the persisted state is the one
\* before the dispatch.
C16_UnsupportedActionThrows ==
    last.call.op = "dispatch" =>
        /\ last.call.token \notin ActionTypes
        /\ last.op = "Error: Invalid action type"
        /\ state = last.pre

\* the dispatch was made in a state that differs from the initial one
C16_Witness ==
    /\ last.op = "Error: Invalid action type"
    /\ last.pre.customerAccessToken # Null
    /\ last.pre.checkoutLineItems # <<>>

\* C17: signOut requests the deletion of the token exactly when there is one,
\* resets the state and sets the flag in the same step (it does not await
\* the deletion), and the deletion's answer, data or userErrors, changes
\* neither.
C17_SignOutDeletion ==
    [][/\ last'.op = "signOut" =>
              /\ deleting' = IF state.customerAccessToken # Null
                             THEN deleting \cup {state.customerAccessToken}
                             ELSE deleting
              /\ state' = initialState
              /\ sessionIsNew'
       /\ last'.op = "deleteCustomerAccessToken" =>
              /\ state' = state
              /\ sessionIsNew' = sessionIsNew]_vars

\* the deletion requested by the caller's signOut was rejected after the
\* reset
C17_Witness ==
    /\ last.op = "deleteCustomerAccessToken"
    /\ ~last.result.hasData
    /\ renewInvocations = 0
    /\ callerCalls = 1
    /\ state = initialState
    /\ sessionIsNew

\* C19: after a reset nothing of the session before it reappears: an
\* addToCheckout that dispatches onto the empty sequence dispatches its own
\* item only, and a renewToken invoked with a token does not set a token in
\* a state that has none.
C19_NoStaleDataAfterSignOut ==
    /\ (last.op = "addToCheckout" /\ last.pre.checkoutLineItems = <<>>) =>
           state.checkoutLineItems = <<last.call.item>>
    /\ (last.op = "renewToken" /\ last.result.hasData /\
        last.call.token # Null) =>
           last.pre.customerAccessToken # Null

\* C20: a step that sets the token leaves checkoutId and checkoutLineItems
\* alone, one that sets checkoutId leaves the token, the expiry and the line
\* items alone, one that sets the line items leaves the token, the expiry
\* and checkoutId alone; a step that changes more than one of the three is a
\* reset.
C20_Frame ==
    [][LET token == <<state.customerAccessToken,
                      state.customerAccessTokenExpiresAt>> #
                    <<state'.customerAccessToken,
                      state'.customerAccessTokenExpiresAt>>
           checkout == state.checkoutId # state'.checkoutId
           items == state.checkoutLineItems # state'.checkoutLineItems
       IN  /\ ((token /\ (checkout \/ items)) \/ (checkout /\ items)) =>
                  /\ state' = initialState
                  /\ last'.op \in {"signOut", "renewToken"}
           /\ (last'.op \in {"signIn:dispatch", "signIn", "renewToken"} \cup
                            CustomerActions /\ last'.result.hasData) =>
                  ~checkout /\ ~items
           /\ last'.op = "createCheckout" => ~token /\ ~items
           /\ last'.op = "addToCheckout" => ~token /\ ~checkout]_vars

\* a checkout id was set in a state with a token and line items
C20_Witness ==
    /\ last.op = "createCheckout"
    /\ last.result.hasData
    /\ last.pre.checkoutId = Null
    /\ isSignedIn
    /\ state.checkoutLineItems # <<>>

----------------------------------------------------------------------------
(* Properties of the mounted application left to itself (SpecMount) *)

\* the process started without a persisted token: nobody invokes an action,
\* so a token can only come from local storage
NoPersistedToken == ~isSignedIn /\ renewInvocations = 0

\* every mounted accessor's auto-create effect has run at least once
CheckoutEffectsRan ==
    \A c \in CheckoutConsumers : checkoutEffectDeps[c] # "unmounted"

\* C12: in a process that starts without persisted state and with auto-create
\* enabled, createCheckout is invoked by the effect exactly once, however
\* many accessors are mounted, and after it succeeds checkoutId is the
\* returned identifier.
C12_AutoCreatedExactlyOnce ==
    (autoCreate /\ NoPersistedToken) =>
        /\ autoCreates <= 1
        /\ (CheckoutEffectsRan /\ autoCreates = 0) => state.checkoutId # Null
        /\ (last.op = "createCheckout" /\ last.result.hasData) =>
               state.checkoutId = last.result.data.id

\* C13: with auto-create disabled no checkout is ever created automatically.
C13_DisabledNeverCreates ==
    ~autoCreate => autoCreates = 0

\* C13, for an accessor whose auto-create is enabled: when checkoutId has
\* become null since its effect last ran, the effect runs again (and invokes
\* createCheckout) unless a checkout appears first.
C13_RecreatedWhenNull ==
    \A c \in CheckoutConsumers :
        (autoCreateOf(c) /\ state.checkoutId = Null /\
         checkoutEffectDeps[c] # Null)
            ~> (checkoutEffectDeps[c] = Null \/ state.checkoutId # Null)

\* the automatic renewal is over: the flag is cleared, renewTokenAutomatically
\* has returned, no renewal is awaited and the effect has seen the final
\* token and flag
RenewalSettled ==
    /\ ~sessionIsNew
    /\ cont = NoCont
    /\ \A i \in DOMAIN inFlight : inFlight[i].op # "renewToken"
    /\ renewEffectDeps = <<state.customerAccessToken, sessionIsNew>>

====
